---------------------------- MODULE Spec2Model ----------------------------
(***************************************************************************)
(* HLS packaging script (src/scripts/windows/main.py and its localized     *)
(* copy src/manual/windows/main.py): one run of main(), from the file      *)
(* dialog to the completion dialog, against an environment that answers    *)
(* the dialogs, the probing tool and the transcoding tool.                 *)
(*                                                                         *)
(* Strings the code parses or formats (probe output lines, bitrates, seek  *)
(* timestamps) are sequences of one-character strings.  Times are exact    *)
(* rationals: a time is a numerator in milliseconds over the denominator   *)
(* num_thumbnails - 1, so duration / (num_thumbnails - 1) * i is the       *)
(* numerator duration * i.  Binary floating-point rounding is not          *)
(* modelled.                                                               *)
(***************************************************************************)
EXTENDS Integers, Sequences, FiniteSets, TLC

VARIABLES
    copy,             \* which copy of the script runs: "scripts" or "manual"
    pc,               \* position of main()
    input_path,       \* Path(select_file())
    output_dir,       \* Path(select_destination())
    probe,            \* what the probing tool answered (kept for the record)
    width, height,    \* get_video_info's result
    duration,         \* get_video_info's result, in milliseconds
    resolutions,      \* determine_resolutions(height)
    rung,             \* index in resolutions of the next rung to transcode
    master_playlist,  \* transcode_video's list of stream entries
    num_thumbnails,   \* generate_thumbnails' parameter (main passes the default)
    timestamps,       \* generate_thumbnails' list, as numerators
    idx,              \* index of the next thumbnail to extract
    calls,            \* every invocation of the transcoding tool, in order
    dialogs,          \* every dialog or message box shown, in order
    fs,               \* what the run created under the project directory
    master_file,      \* the lines of master.m3u8, <<>> while it is not written
    master_writes,    \* how many times master.m3u8 was written
    exit              \* the process's exit status and how it ended

vars == <<copy, pc, input_path, output_dir, probe, width, height, duration,
          resolutions, rung, master_playlist, num_thumbnails, timestamps, idx,
          calls, dialogs, fs, master_file, master_writes, exit>>

-----------------------------------------------------------------------------
(* Bounds of the model *)

\* generate_thumbnails is run with every count 0..MaxCount and with the default
MaxCount == 4

-----------------------------------------------------------------------------
(* Strings as sequences of characters *)

Digits == <<"0", "1", "2", "3", "4", "5", "6", "7", "8", "9">>

IsDigit(c) == \E d \in 1..10 : Digits[d] = c

DigitVal(c) == (CHOOSE d \in 1..10 : Digits[d] = c) - 1

AllDigits(s) == Len(s) > 0 /\ \A k \in 1..Len(s) : IsDigit(s[k])

RECURSIVE DigitsVal(_)
DigitsVal(s) ==
    IF Len(s) = 0 THEN 0
    ELSE DigitsVal(SubSeq(s, 1, Len(s) - 1)) * 10 + DigitVal(s[Len(s)])

RECURSIVE NatToChars(_)
NatToChars(n) ==
    IF n < 10 THEN <<Digits[n + 1]>>
    ELSE NatToChars(n \div 10) \o <<Digits[(n % 10) + 1]>>

RECURSIVE Pow10(_)
Pow10(k) == IF k = 0 THEN 1 ELSE 10 * Pow10(k - 1)

RECURSIVE ZeroPad(_, _)
ZeroPad(s, w) == IF Len(s) >= w THEN s ELSE ZeroPad(<<"0">> \o s, w)

Lower(c) == CASE c = "N" -> "n" [] c = "A" -> "a" [] c = "M" -> "m"
              [] c = "K" -> "k" [] OTHER -> c

LowerStr(s) == [k \in 1..Len(s) |-> Lower(s[k])]

IndexOf(s, c) == IF \E k \in 1..Len(s) : s[k] = c
                 THEN CHOOSE k \in 1..Len(s) : s[k] = c /\ \A j \in 1..(k-1) : s[j] # c
                 ELSE 0

\* int(s): an optional sign and at least one digit, or ValueError
ParseInt(s) ==
    LET neg  == Len(s) > 0 /\ s[1] = "-"
        body == IF neg THEN SubSeq(s, 2, Len(s)) ELSE s
    IN  IF AllDigits(body)
        THEN [ok |-> TRUE, val |-> IF neg THEN 0 - DigitsVal(body) ELSE DigitsVal(body)]
        ELSE [ok |-> FALSE, val |-> 0]

\* float(s) in units of 10^-places: an optional sign, digits, optionally a point
\* and digits (read to `places` places), or ValueError
ParseFloatScaled(s, places) ==
    LET neg   == Len(s) > 0 /\ s[1] = "-"
        body  == IF neg THEN SubSeq(s, 2, Len(s)) ELSE s
        dot   == IndexOf(body, ".")
        ipart == IF dot = 0 THEN body ELSE SubSeq(body, 1, dot - 1)
        fpart == IF dot = 0 THEN <<>> ELSE SubSeq(body, dot + 1, Len(body))
        fkept == SubSeq(fpart \o [k \in 1..places |-> "0"], 1, places)
        ok    == AllDigits(ipart) /\ (dot = 0 \/ AllDigits(fpart))
        mag   == DigitsVal(ipart) * Pow10(places) + DigitsVal(fkept)
    IN  IF ok THEN [ok |-> TRUE, val |-> IF neg THEN 0 - mag ELSE mag]
        ELSE [ok |-> FALSE, val |-> 0]

-----------------------------------------------------------------------------
(* determine_resolutions *)

standard_resolutions == <<144, 240, 360, 480, 720, 1080, 1440, 2160>>

\* A filter that drops the source's own height
determine_resolutions_strict(max_height) ==
    SelectSeq(standard_resolutions, LAMBDA res : res < max_height)

determine_resolutions(max_height) ==
    SelectSeq(standard_resolutions, LAMBDA res : res <= max_height)

-----------------------------------------------------------------------------
(* The bitrate table and bitrate_to_bandwidth *)

BitrateTable ==
    [res \in {144, 240, 360, 480, 720, 1080, 1440, 2160} |->
        CASE res = 144  -> <<"8", "0", "0", "k">>
          [] res = 240  -> <<"4", "0", "0", "k">>
          [] res = 360  -> <<"8", "0", "0", "k">>
          [] res = 480  -> <<"1", "4", "0", "0", "k">>
          [] res = 720  -> <<"2", "8", "0", "0", "k">>
          [] res = 1080 -> <<"5", "0", "0", "0", "k">>
          [] res = 1440 -> <<"8", "0", "0", "0", "k">>
          [] res = 2160 -> <<"1", "4", "0", "0", "0", "k">>]

\* {...}.get(res, "800k")
BitrateFor(res) ==
    IF res \in DOMAIN BitrateTable THEN BitrateTable[res] ELSE <<"8", "0", "0", "k">>

EndsWith(s, c) == Len(s) > 0 /\ s[Len(s)] = c

ButLast(s) == SubSeq(s, 1, Len(s) - 1)

\* A conversion that takes the "k" suffix for a factor of 1024
bitrate_to_bandwidth_kibi(bitrate_str) ==
    IF EndsWith(bitrate_str, "k") THEN ParseInt(ButLast(bitrate_str)).val * 1024
    ELSE IF EndsWith(bitrate_str, "M") THEN ParseFloatScaled(ButLast(bitrate_str), 6).val
    ELSE ParseInt(bitrate_str).val

\* int(s[:-1]) * 1000, int(float(s[:-1]) * 1000000), or int(s); a string that
\* does not parse raises ValueError, which no table entry does
bitrate_to_bandwidth(bitrate_str) ==
    IF EndsWith(bitrate_str, "k") THEN ParseInt(ButLast(bitrate_str)).val * 1000
    ELSE IF EndsWith(bitrate_str, "M") THEN ParseFloatScaled(ButLast(bitrate_str), 6).val
    ELSE ParseInt(bitrate_str).val

\* The entry transcode_video appends to master_playlist for a finished rung
StreamEntry(res) ==
    [resolution |-> res,
     bandwidth  |-> bitrate_to_bandwidth(BitrateFor(res)),
     uri        |-> res,                    \* f"{res}p/index.m3u8"
     width      |-> (res * 16) \div 9,
     height     |-> res]

\* Lines of master.m3u8; the fields a line does not print are 0
ManifestLine(tag, bw, w, h, uri) ==
    [tag |-> tag, bandwidth |-> bw, width |-> w, height |-> h, uri |-> uri]

RECURSIVE StreamLines(_)
StreamLines(playlist) ==
    IF Len(playlist) = 0 THEN <<>>
    ELSE LET stream == Head(playlist)
         IN  <<ManifestLine("#EXT-X-STREAM-INF", stream.bandwidth, stream.width,
                            stream.height, 0),
               ManifestLine("URI", 0, 0, 0, stream.uri)>>
             \o StreamLines(Tail(playlist))

MasterText(playlist) ==
    <<ManifestLine("#EXTM3U", 0, 0, 0, 0), ManifestLine("#EXT-X-VERSION:3", 0, 0, 0, 0)>>
    \o StreamLines(playlist)

-----------------------------------------------------------------------------
(* generate_thumbnails' timestamps and seconds_to_timestamp *)

DefaultNumThumbnails == 256

\* epsilon = 0.1, in milliseconds
EpsilonMs == 100

Min(a, b) == IF a <= b THEN a ELSE b

\* if num_thumbnails < 2: num_thumbnails = 2
ClampCount(n) == IF n < 2 THEN 2 ELSE n

\* Interior timestamp i of the copy under scripts/: min(interval * i, duration - epsilon)
InteriorScripts(d, n, i) == Min(d * i, (d - EpsilonMs) * (n - 1))

\* Interior timestamp i of the copy under manual/: clamped only when ts >= duration
InteriorManual(d, n, i) ==
    IF d * i >= d * (n - 1) THEN (d - EpsilonMs) * (n - 1) ELSE d * i

\* last_ts = duration - epsilon if duration > epsilon else 0
LastTimestamp(d, n) == IF d > EpsilonMs THEN (d - EpsilonMs) * (n - 1) ELSE 0

\* The list of timestamps of copy c for duration d (ms) and the clamped count
\* n, as numerators over n - 1
Timestamps(c, d, n) ==
    [k \in 1..n |->
        IF k = 1 THEN 0
        ELSE IF k = n THEN LastTimestamp(d, n)
        ELSE IF c = "scripts" THEN InteriorScripts(d, n, k - 1)
        ELSE InteriorManual(d, n, k - 1)]

\* num / den rounded to the nearest integer, ties to even
RoundHalfEven(num, den) ==
    LET q == num \div den
        r == num % den
    IN  IF 2 * r < den THEN q
        ELSE IF 2 * r > den THEN q + 1
        ELSE IF q % 2 = 0 THEN q ELSE q + 1

\* f"{n:02}"
Format02(n) ==
    IF n < 0 THEN <<"-">> \o NatToChars(0 - n) ELSE ZeroPad(NatToChars(n), 2)

\* f"{secs:06.3f}" of a non-negative number of milliseconds
Format063f(ms) ==
    ZeroPad(NatToChars(ms \div 1000), 2) \o <<".">> \o ZeroPad(NatToChars(ms % 1000), 3)

\* seconds_to_timestamp of num / den milliseconds
seconds_to_timestamp(num, den) ==
    LET hrs  == num \div (3600000 * den)
        mins == (num % (3600000 * den)) \div (60000 * den)
        secs == RoundHalfEven(num % (60000 * den), den)
    IN  Format02(hrs) \o <<":">> \o Format02(mins) \o <<":">> \o Format063f(secs)

\* A size rule that also shrinks no thumbnail
thumbnail_size_all_large(i, n) == "160x90"

\* "160x90" if idx < num_thumbnails else "120x68"
thumbnail_size(i, n) == IF i < n THEN "160x90" ELSE "120x68"

-----------------------------------------------------------------------------
(* The environment: dialogs, the filesystem, the external tools *)

\* What askopenfilename can return: "" when the dialog is cancelled
FileAnswers == {"", "C:/videos/clip.mp4", "C:/videos/gone.mp4"}

\* What askdirectory can return: "" when the dialog is cancelled
DirAnswers == {"", "D:/hls", "D:/gone"}

\* The paths that exist when the run starts; "." is the working directory
ExistingPaths == {".", "C:/videos/clip.mp4", "D:/hls"}

\* pathlib.Path(s): the empty string is the path "."
Path(s) == IF s = "" THEN "." ELSE s

\* Path.exists()
Exists(p) == p \in ExistingPaths

\* How an external tool's invocation can end: exit status 0, a non-zero exit
\* status (CalledProcessError), or no process at all (FileNotFoundError, OSError)
ToolOutcomes == {"ok", "nonzero", "nostart"}

\* How a directory creation or a file write can end
IoOutcomes == {"ok", "oserror"}

W176  == <<"1", "7", "6">>
W640  == <<"6", "4", "0">>
W3840 == <<"3", "8", "4", "0">>
H100  == <<"1", "0", "0">>
H143  == <<"1", "4", "3">>
H144  == <<"1", "4", "4">>
H1080 == <<"1", "0", "8", "0">>
H360  == <<"3", "6", "0">>
H2160 == <<"2", "1", "6", "0">>
Abc   == <<"a", "b", "c">>
NA    == <<"N", "/", "A">>
D50ms   == <<"0", ".", "0", "5", "0", "0", "0", "0">>
D200ms  == <<"0", ".", "2", "0", "0", "0", "0", "0">>
D10s    == <<"1", "0", ".", "0", "0", "0", "0", "0", "0">>
D3661s  == <<"3", "6", "6", "1", ".", "2", "5", "0", "0", "0", "0">>

ProbeDurations == {D50ms, D200ms, D10s, D3661s}

\* The probing tool's output, split in lines, for a readable video file
ProbeLines ==
    {<<w, h, d>> : w \in {W640}, h \in {H100, H360, H2160}, d \in ProbeDurations}
    \cup {<<w, h, D10s>> : w \in {W176, W3840}, h \in {H143, H144, H1080}}
    \cup {<< <<>> >>, <<W640, H360>>, <<W640, H360, NA>>, <<Abc, H360, D10s>>,
          <<W640, Abc, D10s>>, <<W640, H360, Abc>>}

ProbeAnswer(kind, lines) == [kind |-> kind, lines |-> lines]

\* What subprocess.check_output can give for the input path: the tool fails on
\* a directory
ProbeAnswers(p) ==
    {ProbeAnswer("nonzero", <<>>), ProbeAnswer("nostart", <<>>)}
    \cup (IF p = "." THEN {} ELSE {ProbeAnswer("output", l) : l \in ProbeLines})

-----------------------------------------------------------------------------
(* get_video_info *)

VideoInfo(ok, w, h, d) == [ok |-> ok, width |-> w, height |-> h, duration |-> d]

\* A parser that takes an unavailable or unparsable duration for 0
get_video_info_lenient(answer) ==
    IF answer.kind # "output" \/ Len(answer.lines) < 3 THEN VideoInfo(FALSE, 0, 0, 0)
    ELSE LET w == ParseInt(answer.lines[1])
             h == ParseInt(answer.lines[2])
             d == ParseFloatScaled(answer.lines[3], 3)
         IN  IF ~w.ok \/ ~h.ok THEN VideoInfo(FALSE, 0, 0, 0)
             ELSE VideoInfo(TRUE, w.val, h.val, d.val)

\* The try block: ok is FALSE when it raises (the tool failed, fewer than three
\* lines, int() or float() raised, the duration is "N/A"); the duration is in
\* milliseconds
get_video_info(answer) ==
    IF answer.kind # "output" \/ Len(answer.lines) < 3 THEN VideoInfo(FALSE, 0, 0, 0)
    ELSE LET w == ParseInt(answer.lines[1])
             h == ParseInt(answer.lines[2])
             d == ParseFloatScaled(answer.lines[3], 3)
         IN  IF ~w.ok \/ ~h.ok \/ LowerStr(answer.lines[3]) = <<"n", "/", "a">> \/ ~d.ok
             THEN VideoInfo(FALSE, 0, 0, 0)
             ELSE VideoInfo(TRUE, w.val, h.val, d.val)

-----------------------------------------------------------------------------
(* The run's records *)

Dialog(kind, answer) == [kind |-> kind, answer |-> answer]

\* One invocation of the transcoding tool: n is the rung's resolution or the
\* thumbnail's index
Call(kind, n, bitrate, ss, size, outcome) ==
    [kind |-> kind, n |-> n, bitrate |-> bitrate, ss |-> ss, size |-> size,
     outcome |-> outcome]

\* A file or directory under the project directory
Entry(kind, n) == [kind |-> kind, n |-> n]

Running      == [code |-> -1, how |-> "running"]
SysExit1     == [code |-> 1, how |-> "sys.exit"]    \* sys.exit(1)
Uncaught     == [code |-> 1, how |-> "uncaught"]    \* an exception no handler catches
Returned     == [code |-> 0, how |-> "return"]      \* main() returns

-----------------------------------------------------------------------------
(* The state after construction.  main() calls generate_thumbnails with the
   default count; the other counts are the values of its num_thumbnails
   parameter. *)

Init ==
    /\ copy \in {"scripts", "manual"}
    /\ pc = "select_file"
    /\ input_path = ""
    /\ output_dir = ""
    /\ probe = ProbeAnswer("none", <<>>)
    /\ width = 0
    /\ height = 0
    /\ duration = 0
    /\ resolutions = <<>>
    /\ rung = 1
    /\ master_playlist = <<>>
    /\ num_thumbnails \in (0..MaxCount) \cup {DefaultNumThumbnails}
    /\ timestamps = <<>>
    /\ idx = 1
    /\ calls = <<>>
    /\ dialogs = <<>>
    /\ fs = {}
    /\ master_file = <<>>
    /\ master_writes = 0
    /\ exit = Running

-----------------------------------------------------------------------------
(* main(), step by step *)

\* input_path = Path(select_file()); if not input_path.exists(): error, exit 1
SelectFile ==
    /\ pc = "select_file"
    /\ \E answer \in FileAnswers :
        /\ input_path' = Path(answer)
        /\ IF ~Exists(Path(answer))
           THEN /\ dialogs' = dialogs \o <<Dialog("askopenfilename", answer),
                                           Dialog("showerror", "")>>
                /\ exit' = SysExit1
                /\ pc' = "done"
           ELSE /\ dialogs' = Append(dialogs, Dialog("askopenfilename", answer))
                /\ exit' = exit
                /\ pc' = "select_destination"
    /\ UNCHANGED <<copy, output_dir, probe, width, height, duration, resolutions,
                   rung, master_playlist, num_thumbnails, timestamps, idx, calls,
                   fs, master_file, master_writes>>

\* output_dir = Path(select_destination()); if not output_dir.exists(): error, exit 1
SelectDestination ==
    /\ pc = "select_destination"
    /\ \E answer \in DirAnswers :
        /\ output_dir' = Path(answer)
        /\ IF ~Exists(Path(answer))
           THEN /\ dialogs' = dialogs \o <<Dialog("askdirectory", answer),
                                           Dialog("showerror", "")>>
                /\ exit' = SysExit1
                /\ pc' = "done"
           ELSE /\ dialogs' = Append(dialogs, Dialog("askdirectory", answer))
                /\ exit' = exit
                /\ pc' = "get_video_info"
    /\ UNCHANGED <<copy, input_path, probe, width, height, duration, resolutions,
                   rung, master_playlist, num_thumbnails, timestamps, idx, calls,
                   fs, master_file, master_writes>>

\* width, height, duration = get_video_info(str(input_path))
GetVideoInfo ==
    /\ pc = "get_video_info"
    /\ \E answer \in ProbeAnswers(input_path) :
        LET info == get_video_info(answer)
        IN  /\ probe' = answer
            /\ IF info.ok
               THEN /\ width' = info.width
                    /\ height' = info.height
                    /\ duration' = info.duration
                    /\ pc' = "determine_resolutions"
                    /\ UNCHANGED <<dialogs, exit>>
               ELSE /\ dialogs' = Append(dialogs, Dialog("showerror", ""))
                    /\ exit' = SysExit1
                    /\ pc' = "done"
                    /\ UNCHANGED <<width, height, duration>>
    /\ UNCHANGED <<copy, input_path, output_dir, resolutions, rung, master_playlist,
                   num_thumbnails, timestamps, idx, calls, fs, master_file,
                   master_writes>>

\* resolutions = determine_resolutions(height); if not resolutions: error, exit 1
DetermineResolutions ==
    /\ pc = "determine_resolutions"
    /\ resolutions' = determine_resolutions(height)
    /\ IF Len(determine_resolutions(height)) = 0
       THEN /\ dialogs' = Append(dialogs, Dialog("showerror", ""))
            /\ exit' = SysExit1
            /\ pc' = "done"
       ELSE /\ pc' = "mkdir_project"
            /\ UNCHANGED <<dialogs, exit>>
    /\ UNCHANGED <<copy, input_path, output_dir, probe, width, height, duration,
                   rung, master_playlist, num_thumbnails, timestamps, idx, calls,
                   fs, master_file, master_writes>>

\* project_dir.mkdir(parents=True, exist_ok=True), outside any try block
MkdirProject ==
    /\ pc = "mkdir_project"
    /\ \E io \in IoOutcomes :
        IF io = "ok"
        THEN /\ fs' = fs \cup {Entry("project_dir", 0)}
             /\ pc' = "transcode_video"
             /\ exit' = exit
        ELSE /\ exit' = Uncaught
             /\ pc' = "done"
             /\ fs' = fs
    /\ UNCHANGED <<copy, input_path, output_dir, probe, width, height, duration,
                   resolutions, rung, master_playlist, num_thumbnails, timestamps,
                   idx, calls, dialogs, master_file, master_writes>>

\* A handler that reports the failed rung and goes on with the next one
RungFailedGoesOn ==
    /\ dialogs' = Append(dialogs, Dialog("showerror", ""))
    /\ rung' = rung + 1
    /\ UNCHANGED <<pc, exit, master_playlist>>

\* except subprocess.CalledProcessError: showerror, sys.exit(1)
RungFailed ==
    /\ dialogs' = Append(dialogs, Dialog("showerror", ""))
    /\ exit' = SysExit1
    /\ pc' = "done"
    /\ UNCHANGED <<rung, master_playlist>>

\* One pass of transcode_video's loop, for resolutions[rung]
TranscodeRung ==
    /\ pc = "transcode_video"
    /\ rung <= Len(resolutions)
    /\ LET res == resolutions[rung]
       IN  \E io \in IoOutcomes, outcome \in ToolOutcomes :
            IF io # "ok"
            THEN \* res_dir.mkdir raises
                 /\ exit' = Uncaught
                 /\ pc' = "done"
                 /\ UNCHANGED <<fs, calls, dialogs, rung, master_playlist>>
            ELSE /\ calls' = Append(calls, Call("rung", res, BitrateFor(res), <<>>, "",
                                                outcome))
                 /\ fs' = fs \cup {Entry("rung_dir", res)}
                             \cup (IF outcome = "ok" THEN {Entry("rung_output", res)}
                                   ELSE {})
                 /\ CASE outcome = "ok" ->
                           /\ master_playlist' = Append(master_playlist, StreamEntry(res))
                           /\ rung' = rung + 1
                           /\ UNCHANGED <<pc, exit, dialogs>>
                      [] outcome = "nonzero" -> RungFailed
                      [] outcome = "nostart" ->
                           \* subprocess.run raises FileNotFoundError: not caught
                           /\ exit' = Uncaught
                           /\ pc' = "done"
                           /\ UNCHANGED <<dialogs, rung, master_playlist>>
    /\ UNCHANGED <<copy, input_path, output_dir, probe, width, height, duration,
                   resolutions, num_thumbnails, timestamps, idx, master_file,
                   master_writes>>

\* After the loop: write master.m3u8 and return to main()
WriteMaster ==
    /\ pc = "transcode_video"
    /\ rung > Len(resolutions)
    /\ \E io \in IoOutcomes :
        IF io = "ok"
        THEN /\ master_file' = MasterText(master_playlist)
             /\ master_writes' = master_writes + 1
             /\ fs' = fs \cup {Entry("master", 0)}
             /\ pc' = "generate_thumbnails"
             /\ exit' = exit
        ELSE \* open(master_path, "w") raises
             /\ exit' = Uncaught
             /\ pc' = "done"
             /\ UNCHANGED <<master_file, master_writes, fs>>
    /\ UNCHANGED <<copy, input_path, output_dir, probe, width, height, duration,
                   resolutions, rung, master_playlist, num_thumbnails, timestamps,
                   idx, calls, dialogs>>

\* generate_thumbnails up to its loop: the directory, the count, the timestamps
PlanThumbnails ==
    /\ pc = "generate_thumbnails"
    /\ \E io \in IoOutcomes :
        IF io = "ok"
        THEN /\ fs' = fs \cup {Entry("thumbnails_dir", 0)}
             /\ num_thumbnails' = ClampCount(num_thumbnails)
             /\ timestamps' = Timestamps(copy, duration, ClampCount(num_thumbnails))
             /\ idx' = 1
             /\ pc' = "extract"
             /\ exit' = exit
        ELSE \* thumbnails_dir.mkdir raises
             /\ exit' = Uncaught
             /\ pc' = "done"
             /\ UNCHANGED <<fs, num_thumbnails, timestamps, idx>>
    /\ UNCHANGED <<copy, input_path, output_dir, probe, width, height, duration,
                   resolutions, rung, master_playlist, calls, dialogs, master_file,
                   master_writes>>

\* One pass of generate_thumbnails' loop, for thumbnail idx
ExtractThumbnail ==
    /\ pc = "extract"
    /\ idx <= num_thumbnails
    /\ \E outcome \in ToolOutcomes :
        /\ calls' = Append(calls,
                       Call("thumb", idx, <<>>,
                            seconds_to_timestamp(timestamps[idx], num_thumbnails - 1),
                            thumbnail_size(idx, num_thumbnails), outcome))
        /\ CASE outcome = "ok" ->
                  /\ fs' = fs \cup {Entry("thumb", idx)}
                  /\ idx' = idx + 1
                  /\ UNCHANGED <<pc, exit, dialogs>>
             [] outcome = "nonzero" ->
                  /\ dialogs' = Append(dialogs, Dialog("showerror", ""))
                  /\ exit' = SysExit1
                  /\ pc' = "done"
                  /\ UNCHANGED <<fs, idx>>
             [] outcome = "nostart" ->
                  /\ exit' = Uncaught
                  /\ pc' = "done"
                  /\ UNCHANGED <<fs, idx, dialogs>>
    /\ UNCHANGED <<copy, input_path, output_dir, probe, width, height, duration,
                   resolutions, rung, master_playlist, num_thumbnails, timestamps,
                   master_file, master_writes>>

\* After the loop: the completion dialog, and main() returns
ShowCompleted ==
    /\ pc = "extract"
    /\ idx > num_thumbnails
    /\ dialogs' = Append(dialogs, Dialog("showinfo", ""))
    /\ exit' = Returned
    /\ pc' = "done"
    /\ UNCHANGED <<copy, input_path, output_dir, probe, width, height, duration,
                   resolutions, rung, master_playlist, num_thumbnails, timestamps,
                   idx, calls, fs, master_file, master_writes>>

Next ==
    \/ SelectFile
    \/ SelectDestination
    \/ GetVideoInfo
    \/ DetermineResolutions
    \/ MkdirProject
    \/ TranscodeRung
    \/ WriteMaster
    \/ PlanThumbnails
    \/ ExtractThumbnail
    \/ ShowCompleted

Spec == Init /\ [][Next]_vars

-----------------------------------------------------------------------------
(* Vocabulary of the properties *)

Range(q) == {q[k] : k \in 1..Len(q)}

LastDialogIs(kind) == Len(dialogs) > 0 /\ dialogs[Len(dialogs)].kind = kind

Shown(kind) == \E k \in 1..Len(dialogs) : dialogs[k].kind = kind

RungCalls == SelectSeq(calls, LAMBDA c : c.kind = "rung")

ThumbCalls == SelectSeq(calls, LAMBDA c : c.kind = "thumb")

\* Nothing of the stages after the probe has happened
NothingCreatedOrTranscoded == fs = {} /\ calls = <<>> /\ master_writes = 0

\* The run ended in the error dialog followed by sys.exit(1)
EndedInErrorDialog == pc = "done" /\ exit = SysExit1 /\ LastDialogIs("showerror")

-----------------------------------------------------------------------------
(* C1: a cancelled file or folder dialog (the empty path) ends the run: the
   error dialog is the next and last dialog, the exit status is 1, and no
   later stage runs (no second dialog, no probe, nothing created, no
   transcoder invocation). *)
C1_CancelledDialogEndsRun ==
    \A k \in 1..Len(dialogs) :
        (dialogs[k].kind \in {"askopenfilename", "askdirectory"} /\ dialogs[k].answer = "")
        => /\ Len(dialogs) = k + 1
           /\ EndedInErrorDialog
           /\ probe.kind = "none"
           /\ NothingCreatedOrTranscoded

(* C2: every run ends either with all stages done, the completion dialog and
   exit status 0, or with a modal error dialog and exit status 1; no failure
   ends the run without the error dialog. *)
C2_EveryEndIsCompletionOrErrorDialog ==
    pc = "done" =>
        \/ /\ exit.code = 0
           /\ LastDialogIs("showinfo")
           /\ ~Shown("showerror")
           /\ master_writes = 1
           /\ \A k \in 1..num_thumbnails : Entry("thumb", k) \in fs
        \/ /\ exit.code = 1
           /\ LastDialogIs("showerror")
           /\ ~Shown("showinfo")

(* C3: rungs are invoked one at a time in ascending ladder order; master.m3u8
   is written at most once and only after the transcoder exited 0 for every
   rung; after a non-zero exit on rung k there is no later invocation (of a
   rung or of a thumbnail), master.m3u8 is not written, and the directories and
   outputs of the rungs before k are still there. *)
C3_RungsInOrderMasterAfterAll ==
    LET rungs == RungCalls
    IN
    /\ master_writes <= 1
    /\ Len(rungs) <= Len(resolutions)
    /\ \A k \in 1..Len(rungs) :
        /\ calls[k] = rungs[k]
        /\ rungs[k].n = resolutions[k]
        /\ \A j \in 1..(k - 1) : rungs[j].n < rungs[k].n /\ rungs[j].outcome = "ok"
    /\ (master_writes = 1 \/ Entry("master", 0) \in fs) =>
        /\ Len(rungs) = Len(resolutions)
        /\ \A k \in 1..Len(rungs) : rungs[k].outcome = "ok"
    /\ \A k \in 1..Len(rungs) :
        rungs[k].outcome = "nonzero" =>
            /\ Len(calls) = k
            /\ master_writes = 0 /\ master_file = <<>> /\ Entry("master", 0) \notin fs
            /\ \A e \in fs : e.kind \notin {"thumbnails_dir", "thumb"}
            /\ \A j \in 1..(k - 1) :
                {Entry("rung_dir", resolutions[j]), Entry("rung_output", resolutions[j])}
                    \subseteq fs

\* the transcoder exits non-zero on a rung after the first, and the run has ended
C3_Witness ==
    /\ pc = "done"
    /\ LET rungs == RungCalls
       IN  \E k \in 2..Len(rungs) : rungs[k].outcome = "nonzero"

\* A probe line that is no number
NonNumeric(line) ==
    Len(line) = 0 \/ \E k \in 1..Len(line) : ~IsDigit(line[k]) /\ line[k] \notin {".", "-"}

\* The probe answers the claim is about
BadProbe(answer) ==
    \/ answer.kind \in {"nonzero", "nostart"}
    \/ /\ answer.kind = "output"
       /\ \/ Len(answer.lines) < 3
          \/ answer.lines[3] = NA
          \/ \E k \in 1..3 : NonNumeric(answer.lines[k])

(* C4: when the probing tool fails, gives fewer than three lines, reports the
   duration as N/A or gives a non-numeric width, height or duration, the run
   ends in the error dialog with exit status 1, the project directory is never
   created and the transcoding tool is never invoked. *)
C4_BadProbeEndsRun ==
    BadProbe(probe) => EndedInErrorDialog /\ NothingCreatedOrTranscoded

\* the probing tool gave two lines only, and the run has ended
C4_Witness ==
    probe.kind = "output" /\ Len(probe.lines) = 2 /\ pc = "done"

\* generate_thumbnails has built its list of timestamps
TimestampsBuilt == Len(timestamps) > 0

(* C5: for every duration > 0 and every count N (raised to 2), the list has
   length N, timestamp[0] = 0, every interior timestamp i is
   min(duration / (N - 1) * i, duration - 0.1), and the last is duration - 0.1
   if duration > 0.1 else 0, in both copies.  (Numerators over N - 1.) *)
C5_TimestampsAreClampedSpacing ==
    (TimestampsBuilt /\ duration > 0) =>
        LET n == num_thumbnails
            cap == (duration - 100) * (n - 1)
        IN  /\ n >= 2
            /\ Len(timestamps) = n
            /\ timestamps[1] = 0
            /\ \A i \in 1..(n - 2) :
                /\ timestamps[i + 1] = (IF duration * i <= cap THEN duration * i ELSE cap)
                /\ timestamps[i + 1] <= cap
            /\ timestamps[n] = (IF duration > 100 THEN cap ELSE 0)

(* C6: the two copies issue the same invocations with the same arguments: every
   thumbnail invocation of the running copy carries the seek timestamp and the
   size that either copy computes from the same duration and count. *)
C6_CopiesIssueSameInvocations ==
    LET thumbs == ThumbCalls
    IN  \A c \in {"scripts", "manual"} :
            LET ts == Timestamps(c, duration, num_thumbnails)
            IN  \A k \in 1..Len(thumbs) :
                    /\ thumbs[k].ss = seconds_to_timestamp(ts[k], num_thumbnails - 1)
                    /\ thumbs[k].size = thumbnail_size(k, num_thumbnails)

\* determine_resolutions has run on the probed height
Planned == probe.kind = "output" /\ get_video_info(probe).ok /\ pc # "determine_resolutions"

(* C7: determine_resolutions(maxHeight) is exactly the ladder's elements
   <= maxHeight, strictly ascending, a prefix of the ladder; it is empty exactly
   when maxHeight < 144, and then main() ends in the error dialog with exit
   status 1 before the project directory or any transcoder invocation. *)
C7_LadderPrefix ==
    Planned =>
        /\ \A r \in {144, 240, 360, 480, 720, 1080, 1440, 2160} :
            (r \in Range(resolutions)) <=> (r <= height)
        /\ Range(resolutions) \subseteq {144, 240, 360, 480, 720, 1080, 1440, 2160}
        /\ \A i, j \in 1..Len(resolutions) : i < j => resolutions[i] < resolutions[j]
        /\ Len(resolutions) <= 8
        /\ \A i \in 1..Len(resolutions) :
            resolutions[i] = <<144, 240, 360, 480, 720, 1080, 1440, 2160>>[i]
        /\ (resolutions = <<>>) <=> (height < 144)
        /\ (height < 144) => EndedInErrorDialog /\ NothingCreatedOrTranscoded

\* a source lower than the lowest rung was planned
C7_Witness == Planned /\ height < 144 /\ pc = "done"

\* BANDWIDTH per resolution, as the claim lists it
ExpectedBandwidth(res) ==
    CASE res = 144  -> 800000
      [] res = 240  -> 400000
      [] res = 360  -> 800000
      [] res = 480  -> 1400000
      [] res = 720  -> 2800000
      [] res = 1080 -> 5000000
      [] res = 1440 -> 8000000
      [] res = 2160 -> 14000000

(* C8: once written, master.m3u8 is the two header lines followed by one
   #EXT-X-STREAM-INF line per rung in ascending order, each immediately followed
   by its rung's URI, with BANDWIDTH = 1000 x the table bitrate's number and
   RESOLUTION = floor(res * 16 / 9) x res. *)
C8_MasterManifest ==
    master_writes > 0 =>
        /\ Len(master_file) = 2 + 2 * Len(resolutions)
        /\ master_file[1] = [tag |-> "#EXTM3U", bandwidth |-> 0, width |-> 0,
                             height |-> 0, uri |-> 0]
        /\ master_file[2] = [tag |-> "#EXT-X-VERSION:3", bandwidth |-> 0, width |-> 0,
                             height |-> 0, uri |-> 0]
        /\ \A k \in 1..Len(resolutions) :
            LET inf == master_file[2 * k + 1]
                uri == master_file[2 * k + 2]
                res == resolutions[k]
            IN  /\ inf.tag = "#EXT-X-STREAM-INF"
                /\ inf.bandwidth = ExpectedBandwidth(res)
                /\ 9 * inf.width <= 16 * res /\ 16 * res < 9 * (inf.width + 1)
                /\ inf.height = res
                /\ uri.tag = "URI" /\ uri.uri = res
                /\ k > 1 => resolutions[k - 1] < res

\* master.m3u8 was written for the full ladder of eight rungs
C8_Witness == master_writes = 1 /\ Len(resolutions) = 8

(* C9: thumbnails are extracted once per timestamp in index order 1..N into
   thumb<idx>.webp; every invocation with idx < N asks for 160x90 and the one
   with idx = N, and only that one, for 120x68.  After a non-zero exit at index
   k no later index is invoked, the completion dialog is never shown, the exit
   status is 1 and thumbnails 1..k-1 are still on disk. *)
C9_ThumbnailsInOrder ==
    LET thumbs == ThumbCalls
        first  == Len(calls) - Len(thumbs)
    IN
    /\ Len(thumbs) <= num_thumbnails
    /\ \A k \in 1..Len(thumbs) :
        /\ thumbs[k].n = k
        /\ calls[first + k] = thumbs[k]
        /\ (k < num_thumbnails) => thumbs[k].size = "160x90"
        /\ (thumbs[k].size = "120x68") <=> (k = num_thumbnails)
        /\ (thumbs[k].outcome = "ok") => Entry("thumb", k) \in fs
        /\ (k < Len(thumbs)) => thumbs[k].outcome = "ok"
        /\ (thumbs[k].outcome = "nonzero") =>
            /\ Len(thumbs) = k
            /\ ~Shown("showinfo")
            /\ EndedInErrorDialog
            /\ \A j \in 1..(k - 1) : Entry("thumb", j) \in fs
    /\ Shown("showinfo") =>
        /\ Len(thumbs) = num_thumbnails
        /\ \A k \in 1..Len(thumbs) : thumbs[k].outcome = "ok"

\* the last of at least three thumbnails, the small one, exits non-zero
C9_Witness ==
    /\ pc = "done"
    /\ num_thumbnails >= 3
    /\ LET thumbs == ThumbCalls
       IN  Len(thumbs) = num_thumbnails /\ thumbs[num_thumbnails].outcome = "nonzero"

(* C10: for every duration > 0 and every N >= 2 the seek timestamps passed to
   the transcoder, in extraction order, never decrease, and each lies between 0
   and the duration, in both copies.  (Numerators over N - 1.) *)
C10_SeeksMonotoneWithinDuration ==
    (TimestampsBuilt /\ duration > 0) =>
        \A k \in 1..Len(ThumbCalls) :
            /\ 0 <= timestamps[k]
            /\ timestamps[k] <= duration * (num_thumbnails - 1)
            /\ (k > 1) => timestamps[k - 1] <= timestamps[k]

=============================================================================
